---------------------------- MODULE Spec2Model ----------------------------
(***************************************************************************)
(* hyprws: workspace assignment for Hyprland monitors.                     *)
(*                                                                         *)
(* A state machine of src/main.rs (monitor registry, workspace table,      *)
(* assign_workspaces, switch_workspace, move_workspace,                    *)
(* move_silent_workspace) and src/monitor.rs (the socket listener).        *)
(* hyprctl and the file system are the environment: what hyprctl answers   *)
(* and whether a file operation succeeds are inputs of each action.        *)
(***************************************************************************)
EXTENDS Integers, Sequences, FiniteSets, TLC

VARIABLES
    hyprMonitors,   \* what `hyprctl monitors -j` lists, in hyprctl's order
    cacheFile,      \* ~/.cache/monitors.json
    wsConf,         \* ~/.config/hypr/ws.conf, the workspace table file
    lastOp,         \* the operation that ran last, with its inputs and result
    issued,         \* the hyprctl commands the last operation issued, in order
    lstate,         \* listener: "NotStarted", "Connected" or "Terminated"
    mode,           \* listener: "none", "callback" or "script"
    hasDetached,    \* listener: script_detached is Some(..)
    linesRead,      \* listener: the lines read from the socket so far
    calls,          \* listener: the callback invocations so far
    spawns,         \* listener: the scripts spawned so far
    lastEvent,      \* listener: what became of the line read last
    closed,         \* Hyprland has closed the socket: a read returns 0 bytes
    running         \* the spawned scripts that have not exited yet

vars == <<hyprMonitors, cacheFile, wsConf, lastOp, issued,
          lstate, mode, hasDetached, linesRead, calls, spawns, lastEvent,
          closed, running>>

engineVars == <<cacheFile, wsConf, lastOp, issued>>
listenerVars ==
    <<lstate, mode, hasDetached, linesRead, calls, spawns, lastEvent, closed, running>>

-----------------------------------------------------------------------------
(* Program constants                                                       *)

MAX_WORKSPACES == 100
MAX_MONITORS == 10
workspaces_per_monitor == 10

(* Bounds of the model                                                     *)

\* the largest number of monitors hyprctl lists
MaxReported == 12
\* the largest number of monitors in the runs of the command-line requests
MaxCliMonitors == 3
\* the number of lines the listener reads
MaxLines == 3
\* the number of hotplug events in the runs of the reconciliations
MaxEvents == 2

-----------------------------------------------------------------------------
(* Helpers                                                                 *)

Min(a, b) == IF a < b THEN a ELSE b

\* Rust's % on i32: the remainder has the sign of the dividend
Rem(a, b) == IF a >= 0 THEN a % b ELSE 0 - ((0 - a) % b)

RECURSIVE SelectSeqBy(_, _)
\* the elements of s that are in the set keep, in the order of s
SelectSeqBy(s, keep) ==
    IF s = << >> THEN << >>
    ELSE IF Head(s) \in keep THEN <<Head(s)>> \o SelectSeqBy(Tail(s), keep)
         ELSE SelectSeqBy(Tail(s), keep)

Range(s) == {s[i] : i \in DOMAIN s}

-----------------------------------------------------------------------------
(* Monitors and what hyprctl lists                                         *)

MonitorName(id) == "DP-" \o ToString(id)

\* an f32 is a number of thousandths: 59951 is 59.951 Hz
HyprlandMonitor(id) ==
    [name |-> MonitorName(id), id |-> id,
     width |-> 1920 + id, height |-> 1080, refresh_rate |-> 59951 + id]

\* monitors 0..n-1, listed by ascending id
Ordered(n) == [i \in 1..n |-> HyprlandMonitor(i - 1)]
\* monitors 0..n-1, listed by descending id
Reversed(n) == [i \in 1..n |-> HyprlandMonitor(n - i)]
\* monitors 0 and 2: monitor 1 was unplugged
Gapped == <<HyprlandMonitor(0), HyprlandMonitor(2)>>

Snapshots ==
    {Ordered(n) : n \in 0..MaxReported} \cup {Reversed(n) : n \in 2..3} \cup {Gapped}

CliSnapshots == {Ordered(n) : n \in 0..MaxCliMonitors} \cup {Gapped}


-----------------------------------------------------------------------------
(* The workspace table file: one line per pair                             *)

\* writeln!(file, "workspace = {}, monitor:{}", workspace, monitor)
FormatLine(workspace, monitor) ==
    [head |-> "workspace = ", numOk |-> TRUE, num |-> workspace,
     sep |-> ", monitor:", mon |-> monitor]

\* strip_prefix("workspace = "), split_once(", monitor:"), parse::<i32>()
LineParses(line) ==
    line.head = "workspace = " /\ line.sep = ", monitor:" /\ line.numOk

WorkspaceMonitorMap(line) == [workspace |-> line.num, monitor |-> line.mon]

\* the pairs of the lines that parse, in the order of the lines
ParseLines(lines) ==
    LET parsed == SelectSeq(lines, LineParses)
    IN  [i \in DOMAIN parsed |-> WorkspaceMonitorMap(parsed[i])]

\* a file that cannot be opened reads as no pairs
parse_workspace_file(conf) ==
    IF conf.exists THEN ParseLines(conf.lines) ELSE << >>

NoFile == [exists |-> FALSE, lines |-> << >>]

-----------------------------------------------------------------------------
(* The monitor registry: HashMap<String, Monitor>, keyed by the id         *)

MonitorConfig_new == << >>

RECURSIVE Digits(_)
\* the decimal digits of a u32, as serde_json writes it
Digits(n) == IF n < 10 THEN <<n>> ELSE Append(Digits(n \div 10), n % 10)

RECURSIVE ParseDigits(_)
\* the u32 that serde_json reads from decimal digits
ParseDigits(ds) ==
    IF ds = << >> THEN 0
    ELSE ParseDigits(SubSeq(ds, 1, Len(ds) - 1)) * 10 + ds[Len(ds)]

\* the decimal text of an f32 in the JSON document: 59.951 is written with
\* the digits of 59 and of the 951 thousandths
JsonNumber(x) == [whole |-> Digits(x \div 1000), frac |-> Digits(x % 1000)]

\* the f32 read back from the decimal text
ParseNumber(text) == ParseDigits(text.whole) * 1000 + ParseDigits(text.frac)

\* the fraction of the refresh rate is not written
MonitorToJson_WholeRate(m) ==
    [name |-> m.name, id |-> Digits(m.id), height |-> Digits(m.height),
     width |-> Digits(m.width)]
        @@ ("refresh-rate" :> JsonNumber(m.refresh_rate - (m.refresh_rate % 1000)))

\* #[derive(Serialize)] for Monitor: the members of the JSON object, the
\* numbers as decimal text, refresh_rate renamed "refresh-rate"
MonitorToJson(m) ==
    [name |-> m.name, id |-> Digits(m.id), height |-> Digits(m.height),
     width |-> Digits(m.width)]
        @@ ("refresh-rate" :> JsonNumber(m.refresh_rate))

\* #[derive(Deserialize)] for Monitor
MonitorFromJson(o) ==
    [name |-> o.name, id |-> ParseDigits(o.id), height |-> ParseDigits(o.height),
     width |-> ParseDigits(o.width), refresh_rate |-> ParseNumber(o["refresh-rate"])]

\* the document {"monitors": {"<id>": {..}, ..}} that save writes
ToJson(config) == [monitors |-> [k \in DOMAIN config |-> MonitorToJson(config[k])]]

\* the registry that load reads from the document
FromJson(doc) == [k \in DOMAIN doc.monitors |-> MonitorFromJson(doc.monitors[k])]

NoCache == [state |-> "absent", doc |-> [monitors |-> << >>]]

\* File::open and serde_json::from_reader
MonitorConfig_load(cache) ==
    [ok |-> cache.state = "ok", monitors |-> FromJson(cache.doc)]

\* File::create and serde_json::to_writer_pretty; a failed create leaves the file
MonitorConfig_save(config, cache, saveOk) ==
    IF saveOk THEN [state |-> "ok", doc |-> ToJson(config)] ELSE cache

QueryStatus == {"ok", "badfields", "unavailable"}

\* the position in listed of the entry that insert() keeps for this id: the last
LastWithId(listed, id) ==
    CHOOSE i \in DOMAIN listed :
        /\ listed[i].id = id
        /\ \A j \in DOMAIN listed : listed[j].id = id => j <= i

\* the map is cleared before the answer of hyprctl is looked at
update_from_hyprland_ClearFirst(config, listed, q) ==
    IF q # "ok" THEN [ok |-> FALSE, monitors |-> MonitorConfig_new]
    ELSE LET hyprland_monitors == SubSeq(listed, 1, Min(Len(listed), MAX_MONITORS))
         IN  [ok |-> TRUE,
              monitors |-> [key \in {ToString(hyprland_monitors[i].id) :
                                        i \in DOMAIN hyprland_monitors} |->
                               hyprland_monitors[CHOOSE i \in DOMAIN hyprland_monitors :
                                   ToString(hyprland_monitors[i].id) = key]]]

\* the map is not cleared: the entries of monitors no longer listed stay
update_from_hyprland_KeepsOld(config, listed, q) ==
    IF q # "ok" THEN [ok |-> FALSE, monitors |-> config]
    ELSE LET hyprland_monitors == SubSeq(listed, 1, Min(Len(listed), MAX_MONITORS))
             fresh == [key \in {ToString(hyprland_monitors[i].id) :
                                   i \in DOMAIN hyprland_monitors} |->
                          hyprland_monitors[CHOOSE i \in DOMAIN hyprland_monitors :
                              ToString(hyprland_monitors[i].id) = key]]
         IN  [ok |-> TRUE, monitors |-> fresh @@ config]

\* q = "unavailable": hyprctl printed nothing; q = "badfields": serde rejects
\* the JSON; otherwise the list is truncated, the map cleared and refilled
update_from_hyprland(config, listed, q) ==
    IF q # "ok" THEN [ok |-> FALSE, monitors |-> config]
    ELSE LET hyprland_monitors == SubSeq(listed, 1, Min(Len(listed), MAX_MONITORS))
             ids == {hyprland_monitors[i].id : i \in DOMAIN hyprland_monitors}
             IdOfKey(key) == CHOOSE id \in ids : ToString(id) = key
         IN  [ok |-> TRUE,
              monitors |-> [key \in {ToString(id) : id \in ids} |->
                               hyprland_monitors[LastWithId(hyprland_monitors,
                                                            IdOfKey(key))]]]

RECURSIVE SortIds(_)
SortIds(ids) ==
    IF ids = {} THEN << >>
    ELSE LET least == CHOOSE a \in ids : \A b \in ids : a <= b
         IN  <<least>> \o SortIds(ids \ {least})

get_sorted_monitor_names(config) ==
    LET monitor_ids == SortIds({config[k].id : k \in DOMAIN config})
    IN  [i \in DOMAIN monitor_ids |->
            config[CHOOSE k \in DOMAIN config : config[k].id = monitor_ids[i]].name]


\* MonitorConfig::load(), or a new registry refreshed and saved
get_monitor_config(cache, listed, q0, save0) ==
    LET loaded == MonitorConfig_load(cache)
        fresh == update_from_hyprland(MonitorConfig_new, listed, q0).monitors
    IN  IF loaded.ok THEN [config |-> loaded.monitors, cache |-> cache]
        ELSE [config |-> fresh, cache |-> MonitorConfig_save(fresh, cache, save0)]

-----------------------------------------------------------------------------
(* The assignment engine                                                   *)

Cmd(name, arg) == [cmd |-> name, arg |-> arg]

\* the outcomes of writing the table: no failure, File::create fails, or the
\* writeln of the given line fails; and whether `hyprctl reload` succeeds
WriteOutcomes ==
    {[kind |-> "ok", line |-> 0, reloadOk |-> TRUE],
     [kind |-> "ok", line |-> 0, reloadOk |-> FALSE],
     [kind |-> "create_fails", line |-> 0, reloadOk |-> TRUE]}
        \cup {[kind |-> "write_fails", line |-> k, reloadOk |-> TRUE] : k \in {4, 13}}

\* for _ in 0..workspaces_per_monitor, breaking once workspace > MAX_WORKSPACES
MonitorBlock(monitor, workspace) ==
    LET left == IF workspace > MAX_WORKSPACES THEN 0
                ELSE MAX_WORKSPACES - workspace + 1
    IN  [j \in 1..Min(workspaces_per_monitor, left) |->
            FormatLine(workspace + j - 1, monitor)]

RECURSIVE WriteMonitors(_, _)
WriteMonitors(monitors, workspace) ==
    IF monitors = << >> THEN << >>
    ELSE LET block == MonitorBlock(Head(monitors), workspace)
         IN  block \o WriteMonitors(Tail(monitors), workspace + Len(block))

\* the workspace counter starts at 0
PlacementLines_FromZero(monitors) ==
    WriteMonitors(SubSeq(monitors, 1,
                         Min(Len(monitors), MAX_WORKSPACES \div workspaces_per_monitor)), 0)

\* the lines the loops of assign_workspaces_to_monitors write
PlacementLines(monitors) ==
    LET max_monitors_to_use ==
            Min(Len(monitors), MAX_WORKSPACES \div workspaces_per_monitor)
    IN  WriteMonitors(SubSeq(monitors, 1, max_monitors_to_use), 1)

\* the reload is run whether or not the lines could be written
assign_workspaces_to_monitors_ReloadAlways(conf, monitors, wr) ==
    LET lines == PlacementLines(monitors)
        reloaded == IF wr.reloadOk THEN "ok" ELSE "failed"
        cmds == <<Cmd("monitors_wc", 0), Cmd("reload", 0)>>
    IN  IF wr.kind = "create_fails"
        THEN [conf |-> conf, ret |-> "None", cmds |-> << >>,
              write |-> "create_fails", reload |-> "none"]
        ELSE IF wr.kind = "write_fails" /\ wr.line <= Len(lines)
        THEN [conf |-> [exists |-> TRUE, lines |-> SubSeq(lines, 1, wr.line - 1)],
              ret |-> "None", cmds |-> cmds,
              write |-> "write_fails", reload |-> reloaded]
        ELSE [conf |-> [exists |-> TRUE, lines |-> lines], ret |-> "Some",
              cmds |-> cmds, write |-> "ok", reload |-> reloaded]

\* the file, the return value, the commands run, how the writing went and
\* how the reload went; run_command drops the status of the reload
assign_workspaces_to_monitors(conf, monitors, wr) ==
    LET lines == PlacementLines(monitors)
    IN  IF wr.kind = "create_fails"
        THEN [conf |-> conf, ret |-> "None", cmds |-> << >>,
              write |-> "create_fails", reload |-> "none"]
        ELSE IF wr.kind = "write_fails" /\ wr.line <= Len(lines)
        THEN [conf |-> [exists |-> TRUE, lines |-> SubSeq(lines, 1, wr.line - 1)],
              ret |-> "None", cmds |-> << >>,
              write |-> "write_fails", reload |-> "none"]
        ELSE [conf |-> [exists |-> TRUE, lines |-> lines], ret |-> "Some",
              cmds |-> <<Cmd("monitors_wc", 0), Cmd("reload", 0)>>,
              write |-> "ok", reload |-> IF wr.reloadOk THEN "ok" ELSE "failed"]

\* `hyprctl monitors -j | jq -r '.[].name'`
FallbackNames(listed, q) ==
    IF q = "unavailable" THEN << >> ELSE [i \in DOMAIN listed |-> listed[i].name]

\* an operation with its inputs and results: for assign_workspaces, query is
\* the answer of hyprctl to the refresh and seen the monitors it listed, before
\* and after are the registry before and after the refresh, saved tells that
\* the registry was saved after its last change, write and reload how the
\* writing of the table and the reload went
NoOp ==
    [op |-> "none", w |-> 0, silent |-> FALSE, active |-> 0, mcount |-> 0,
     curmon |-> 0, profile |-> 0, handed |-> << >>, path |-> "none",
     ret |-> "none", panicked |-> FALSE, query |-> "none", seen |-> << >>,
     before |-> << >>, after |-> << >>, saved |-> FALSE, write |-> "none",
     reload |-> "none"]

\* assign_workspaces(path): the files afterwards, what was handed to the
\* placement, the return value and the commands run
assign_workspaces(cache, conf, listed, q0, save0, q, save1, wr) ==
    LET got == get_monitor_config(cache, listed, q0, save0)
        upd == update_from_hyprland(got.config, listed, q)
        monitors == IF upd.ok THEN get_sorted_monitor_names(upd.monitors)
                    ELSE FallbackNames(listed, q)
        wrote == assign_workspaces_to_monitors(conf, monitors, wr)
    IN  [cache |-> IF upd.ok THEN MonitorConfig_save(upd.monitors, got.cache, save1)
                   ELSE got.cache,
         conf |-> wrote.conf,
         op |-> [NoOp EXCEPT !.op = "assign", !.handed = monitors, !.ret = wrote.ret,
                             !.path = IF upd.ok THEN "registry" ELSE "fallback",
                             !.query = q, !.seen = listed,
                             !.before = got.config, !.after = upd.monitors,
                             !.saved = IF upd.ok THEN save1
                                       ELSE ~MonitorConfig_load(cache).ok /\ save0,
                             !.write = wrote.write, !.reload = wrote.reload],
         cmds |-> wrote.cmds]


\* debug_monitor_config(): the cache file afterwards and the registry; when the
\* refresh fails it returns before the save, but get_monitor_config has saved
\* a registry it could not load
debug_monitor_config(cache, listed, q0, save0, q, save1) ==
    LET got == get_monitor_config(cache, listed, q0, save0)
        upd == update_from_hyprland(got.config, listed, q)
    IN  [cache |-> IF upd.ok THEN MonitorConfig_save(upd.monitors, got.cache, save1)
                   ELSE got.cache,
         op |-> [NoOp EXCEPT !.op = "debug", !.query = q, !.seen = listed,
                             !.before = got.config, !.after = upd.monitors,
                             !.saved = IF upd.ok THEN save1
                                       ELSE ~MonitorConfig_load(cache).ok /\ save0]]

-----------------------------------------------------------------------------
(* Placement: switch and move                                              *)

I32_MAX == 2147483647

\* no filter: every workspace of the table is a target
Targets_All(workspace, maps) == [i \in DOMAIN maps |-> maps[i].workspace]

\* maps.iter().filter(|m| m.workspace % 10 == workspace % 10).map(|m| m.workspace)
RECURSIVE Targets(_, _)
Targets(workspace, maps) ==
    IF maps = << >> THEN << >>
    ELSE IF Rem(Head(maps).workspace, 10) = Rem(workspace, 10)
         THEN <<Head(maps).workspace>> \o Targets(workspace, Tail(maps))
         ELSE Targets(workspace, Tail(maps))

\* what `hyprctl clients -j | jq ... | length` prints for a workspace, one
\* answer per profile of open windows; an unparsable answer counts as 0
WindowCount(profile, ws) ==
    CASE profile = 1 -> 0
      [] profile = 2 -> ws \div 10
      [] profile = 3 -> 12 - (ws \div 10)
      [] profile = 4 -> IF ws < 10 THEN 5 ELSE 1
      [] profile = 5 -> IF ws \div 10 = 0 THEN 2 ELSE IF ws \div 10 = 1 THEN 5 ELSE 1
      [] OTHER -> 0

Profiles == 1..5

RECURSIVE LeastPopulated_LastWins(_, _, _, _)
\* count <= min_windows: among equal counts the last target wins
LeastPopulated_LastWins(targets, profile, min_windows, least_populated) ==
    IF targets = << >> THEN least_populated
    ELSE LET ws == Head(targets)
             count == WindowCount(profile, ws)
         IN  IF count <= min_windows
             THEN LeastPopulated_LastWins(Tail(targets), profile, count, ws)
             ELSE LeastPopulated_LastWins(Tail(targets), profile, min_windows,
                                          least_populated)

\* the loop of move_silent_workspace over targets, in their order
RECURSIVE LeastPopulated(_, _, _, _)
LeastPopulated(targets, profile, min_windows, least_populated) ==
    IF targets = << >> THEN least_populated
    ELSE LET ws == Head(targets)
             count == WindowCount(profile, ws)
         IN  IF count < min_windows
             THEN LeastPopulated(Tail(targets), profile, count, ws)
             ELSE LeastPopulated(Tail(targets), profile, min_windows, least_populated)

\* the commands move_silent_workspace runs
move_silent_workspace(workspace, maps, profile) ==
    LET targets == Targets(workspace, maps)
        sorted_targets == SortIds(Range(targets))
    IN  IF workspace <= 0 THEN << >>
        ELSE IF targets = << >> THEN << >>
        ELSE <<Cmd("movetoworkspacesilent",
                   LeastPopulated(targets, profile, I32_MAX, sorted_targets[1]))>>

\* the switches are dispatched before the silent move
move_workspace_SwitchFirst(workspace, maps, profile) ==
    LET shown == Targets(workspace, maps)
    IN  [i \in DOMAIN shown |-> Cmd("workspace", shown[i])]
            \o move_silent_workspace(workspace, maps, profile)

\* the commands move_workspace runs
move_workspace(workspace, maps, profile) ==
    LET shown == Targets(workspace, maps)
    IN  move_silent_workspace(workspace, maps, profile)
            \o [i \in DOMAIN shown |-> Cmd("workspace", shown[i])]

\* the switches are dispatched from the last target to the first
switch_workspace_Reversed(workspace, maps, current_workspace, monitor_count, current_monitor) ==
    LET targets == Targets(workspace, maps)
        n == Len(targets)
    IN  IF workspace <= 0 \/ targets = << >> THEN [cmds |-> << >>, panicked |-> FALSE]
        ELSE IF current_workspace \in Range(targets)
        THEN IF monitor_count = 0 THEN [cmds |-> << >>, panicked |-> TRUE]
             ELSE [cmds |-> <<Cmd("focusmonitor",
                                  Rem(current_monitor + 1, monitor_count))>>,
                   panicked |-> FALSE]
        ELSE [cmds |-> [i \in 1..n |-> Cmd("workspace", targets[n + 1 - i])],
              panicked |-> FALSE]

\* the commands switch_workspace runs, and whether `% monitor_count` panicked
switch_workspace(workspace, maps, current_workspace, monitor_count, current_monitor) ==
    LET targets == Targets(workspace, maps)
    IN  IF workspace <= 0 THEN [cmds |-> << >>, panicked |-> FALSE]
        ELSE IF targets = << >> THEN [cmds |-> << >>, panicked |-> FALSE]
        ELSE IF current_workspace \in Range(targets)
        THEN IF monitor_count = 0 THEN [cmds |-> << >>, panicked |-> TRUE]
             ELSE [cmds |-> <<Cmd("focusmonitor",
                                  Rem(current_monitor + 1, monitor_count))>>,
                   panicked |-> FALSE]
        ELSE [cmds |-> [i \in DOMAIN targets |-> Cmd("workspace", targets[i])],
              panicked |-> FALSE]


-----------------------------------------------------------------------------
(* The listener: lines of the notification socket                          *)

\* a line is a sequence of tokens; ">>" is the separator, " " and "\n" are
\* white space
Whitespace == {" ", "\n"}

RECURSIVE TrimStart(_)
TrimStart(s) ==
    IF s # << >> /\ Head(s) \in Whitespace THEN TrimStart(Tail(s)) ELSE s

RECURSIVE TrimEnd(_)
TrimEnd(s) ==
    IF s # << >> /\ s[Len(s)] \in Whitespace
    THEN TrimEnd(SubSeq(s, 1, Len(s) - 1)) ELSE s

\* str::trim
Trim(s) == TrimEnd(TrimStart(s))

RECURSIVE SplitFrom(_, _)
\* the fields of s after the field cur that is being read
SplitFrom(s, cur) ==
    IF s = << >> THEN <<cur>>
    ELSE IF Head(s) = ">>" THEN <<cur>> \o SplitFrom(Tail(s), << >>)
         ELSE SplitFrom(Tail(s), Append(cur, Head(s)))

\* data.trim().split(">>").collect()
data_parts(line) == SplitFrom(Trim(line), << >>)

SampleLines ==
    { <<"monitoradded", ">>", "DP-2", "\n">>,
      <<"monitorremoved", ">>", "DP-1", "\n">>,
      <<"monitorremoved", ">>", "DP-1", ">>", "x", "\n">>,
      <<"workspace", ">>", "3", "\n">>,
      <<"monitoradded", "\n">>,
      <<"\n">> }

\* 0o100, the owner-execute bit of st_mode
S_IXUSR == 64

\* mode & bit != 0, for a bit that is a power of two
BitAnd(bits, bit) == IF (bits \div bit) % 2 = 1 THEN bit ELSE 0

\* !mode & bit: the bit of the complement of mode
BitAndNot(bits, bit) == bit - BitAnd(bits, bit)

\* what File::open, metadata().permissions().mode() and Command::spawn find at
\* the path of a script: no file; 0o655, executable by group and others but
\* not by the owner; 0o744, executable by the owner, and it starts; 0o755 and
\* the spawn fails
ScriptStatus ==
    {[exists |-> FALSE, mode |-> 0, starts |-> FALSE],
     [exists |-> TRUE, mode |-> 6 * 64 + 5 * 8 + 5, starts |-> FALSE],
     [exists |-> TRUE, mode |-> 7 * 64 + 4 * 8 + 4, starts |-> TRUE],
     [exists |-> TRUE, mode |-> 7 * 64 + 5 * 8 + 5, starts |-> FALSE]}

\* no script is looked at
NoScript == [exists |-> FALSE, mode |-> 0, starts |-> FALSE]

NoEvent == [line |-> << >>, outcome |-> "none", script |-> "none", status |-> NoScript]

\* any of the three execute bits lets the script be spawned
RunScript_AnyExecuteBit(script, arg, status) ==
    IF ~status.exists
    THEN [outcome |-> "not_found", spawned |-> << >>, alive |-> TRUE]
    ELSE IF BitAnd(status.mode, 64) + BitAnd(status.mode, 8) + BitAnd(status.mode, 1) = 0
    THEN [outcome |-> "not_executable", spawned |-> << >>, alive |-> TRUE]
    ELSE [outcome |-> "spawned",
          spawned |-> <<[script |-> script, args |-> <<arg>>]>>, alive |-> TRUE]

\* the script branch of listen for one event: the outcome, and what is
\* spawned; spawn().expect(..) panics when the script cannot be started
RunScript(script, arg, status) ==
    IF ~status.exists
    THEN [outcome |-> "not_found", spawned |-> << >>, alive |-> TRUE]
    ELSE IF BitAndNot(status.mode, S_IXUSR) # 0
    THEN [outcome |-> "not_executable", spawned |-> << >>, alive |-> TRUE]
    ELSE IF ~status.starts
    THEN [outcome |-> "panic", spawned |-> << >>, alive |-> FALSE]
    ELSE [outcome |-> "spawned",
          spawned |-> <<[script |-> script, args |-> <<arg>>]>>, alive |-> TRUE]

Ignored ==
    [outcome |-> "ignored", call |-> << >>, spawned |-> << >>, alive |-> TRUE,
     script |-> "none"]

CallbackRun(id, is_added) ==
    [outcome |-> "callback", call |-> <<[id |-> id, is_added |-> is_added]>>,
     spawned |-> << >>, alive |-> TRUE, script |-> "none"]

ScriptRun(script, arg, status) ==
    LET r == RunScript(script, arg, status)
    IN  [outcome |-> r.outcome, call |-> << >>, spawned |-> r.spawned,
         alive |-> r.alive, script |-> script]

\* every line with two fields counts as monitorremoved unless it is monitoradded
EventKind_OtherRemoves(parts) ==
    IF Len(parts) < 2 THEN "skip"
    ELSE IF parts[1] = <<"monitoradded">> THEN "monitoradded"
    ELSE "monitorremoved"

\* the tests of the loop on data_parts
EventKind(parts) ==
    IF Len(parts) < 2 THEN "skip"
    ELSE IF parts[1] = <<"monitoradded">> THEN "monitoradded"
    ELSE IF parts[1] = <<"monitorremoved">> THEN "monitorremoved"
    ELSE "other"

\* the branch of monitoradded
MonitorAdded(id, callbackMode, status) ==
    IF callbackMode THEN CallbackRun(id, TRUE)
    ELSE ScriptRun("script_attached", id, status)

\* the callback is told the monitor was added
MonitorRemoved_AsAdded(id, callbackMode, detached, status) ==
    IF callbackMode THEN CallbackRun(id, TRUE)
    ELSE IF detached THEN ScriptRun("script_detached", id, status)
    ELSE Ignored

\* the branch of monitorremoved
MonitorRemoved(id, callbackMode, detached, status) ==
    IF callbackMode THEN CallbackRun(id, FALSE)
    ELSE IF detached THEN ScriptRun("script_detached", id, status)
    ELSE Ignored

\* one pass of the loop of listen over the parts of a line: what is done
Dispatch(parts, callbackMode, detached, status) ==
    CASE EventKind(parts) = "monitoradded" ->
            MonitorAdded(parts[2], callbackMode, status)
      [] EventKind(parts) = "monitorremoved" ->
            MonitorRemoved(parts[2], callbackMode, detached, status)
      [] OTHER -> Ignored

-----------------------------------------------------------------------------
(* Initial states                                                          *)

InitWith(snapshots, confs) ==
    /\ hyprMonitors \in snapshots
    /\ cacheFile = NoCache
    /\ wsConf \in confs
    /\ lastOp = NoOp
    /\ issued = << >>
    /\ lstate = "NotStarted"
    /\ mode = "none"
    /\ hasDetached = FALSE
    /\ linesRead = << >>
    /\ calls = << >>
    /\ spawns = << >>
    /\ lastEvent = NoEvent
    /\ closed = FALSE
    /\ running = << >>

-----------------------------------------------------------------------------
(* The environment                                                         *)

\* a monitor is plugged or unplugged: hyprctl lists another set
Hotplug(snapshots) ==
    /\ \E s \in snapshots \ {hyprMonitors} : hyprMonitors' = s
    /\ UNCHANGED <<engineVars, listenerVars>>

\* the read of the socket fails: read_until(..).unwrap() panics
SocketError ==
    /\ lstate = "Connected"
    /\ lstate' = "Terminated"
    /\ lastEvent' = [NoEvent EXCEPT !.outcome = "socket_error"]
    /\ UNCHANGED <<hyprMonitors, engineVars, mode, hasDetached, linesRead, calls,
                   spawns, closed, running>>

-----------------------------------------------------------------------------
(* main: --monitor                                                         *)

\* what the calls of one assign_workspaces meet: the answers of hyprctl to the
\* refresh of get_monitor_config (asked only when the cache does not load) and
\* to the refresh of assign_workspaces, whether the cache can be written, and
\* how the writing of the table goes
AssignInputsOf(writes) ==
    [q0 : IF MonitorConfig_load(cacheFile).ok THEN {"ok"} ELSE QueryStatus,
     q : QueryStatus, saveOk : BOOLEAN, wr : writes]

AssignInputs == AssignInputsOf(WriteOutcomes)

\* assign_workspaces as a step of the program
RunAssign(in) ==
    LET a == assign_workspaces(cacheFile, wsConf, hyprMonitors,
                               in.q0, in.saveOk, in.q, in.saveOk, in.wr)
    IN  /\ cacheFile' = a.cache
        /\ wsConf' = a.conf
        /\ lastOp' = a.op
        /\ issued' = a.cmds

\* get_hyprland_socket fails, UnixStream::connect fails, or the socket opens
ConnectOutcomes == {"no_instance", "refused", "ok"}

\* --monitor with no script: the initial assignment, then listen with a
\* callback; writes are the outcomes the writing of the table can have
StartCallbackWith(writes) ==
    /\ lstate = "NotStarted"
    /\ \E connect \in ConnectOutcomes :
          IF connect = "no_instance"
          THEN /\ lstate' = "Terminated"
               /\ UNCHANGED engineVars
          ELSE \E in \in AssignInputsOf(writes) :
                  /\ RunAssign(in)
                  /\ lstate' = IF lastOp'.ret = "Some" /\ connect = "ok"
                               THEN "Connected" ELSE "Terminated"
    /\ mode' = "callback"
    /\ hasDetached' = FALSE
    /\ UNCHANGED <<hyprMonitors, linesRead, calls, spawns, lastEvent, closed, running>>

StartCallback == StartCallbackWith(WriteOutcomes)

\* --monitor <script_attached> [script_detached]: listen with scripts
StartScript ==
    /\ lstate = "NotStarted"
    /\ \E connect \in ConnectOutcomes, detached \in BOOLEAN :
          /\ lstate' = IF connect = "ok" THEN "Connected" ELSE "Terminated"
          /\ hasDetached' = detached
    /\ mode' = "script"
    /\ UNCHANGED <<hyprMonitors, engineVars, linesRead, calls, spawns, lastEvent,
                   closed, running>>

\* one pass of the loop of listen: a line is read and handled; the callback
\* is the closure of main, which runs assign_workspaces; limit bounds the
\* number of lines read
ReadLineWith(lines, writes, limit) ==
    /\ lstate = "Connected"
    /\ ~closed
    /\ Len(linesRead) < limit
    /\ \E line \in lines :
       \E status \in IF mode = "script" THEN ScriptStatus ELSE {NoScript} :
          LET d == Dispatch(data_parts(line), mode = "callback", hasDetached, status)
          IN  /\ linesRead' = Append(linesRead, line)
              /\ calls' = calls \o d.call
              /\ spawns' = spawns \o d.spawned
              /\ running' = running \o d.spawned
              /\ lstate' = IF d.alive THEN "Connected" ELSE "Terminated"
              /\ lastEvent' = [line |-> line, outcome |-> d.outcome, script |-> d.script,
                               status |-> IF d.script = "none" THEN NoScript ELSE status]
              /\ IF d.call # << >>
                 THEN \E in \in AssignInputsOf(writes) : RunAssign(in)
                 ELSE UNCHANGED engineVars
    /\ UNCHANGED <<hyprMonitors, mode, hasDetached, closed>>

\* Hyprland closes the socket
CloseStream ==
    /\ lstate = "Connected"
    /\ ~closed
    /\ closed' = TRUE
    /\ UNCHANGED <<hyprMonitors, engineVars, lstate, mode, hasDetached, linesRead,
                   calls, spawns, lastEvent, running>>

\* one pass of the loop of listen at the end of the stream: read_until
\* returns Ok(0), buf is empty, data_parts has one field, and the loop goes on
ReadEof ==
    /\ lstate = "Connected"
    /\ closed
    /\ LET d == Dispatch(data_parts(<< >>), mode = "callback", hasDetached, NoScript)
       IN  /\ calls' = calls \o d.call
           /\ spawns' = spawns \o d.spawned
           /\ running' = running \o d.spawned
           /\ lstate' = IF d.alive THEN "Connected" ELSE "Terminated"
           /\ lastEvent' = [line |-> << >>, outcome |-> d.outcome, script |-> d.script,
                            status |-> NoScript]
    /\ UNCHANGED <<hyprMonitors, engineVars, mode, hasDetached, linesRead, closed>>

\* a script that listen spawned exits; listen does not wait for it
ChildExits ==
    /\ \E i \in DOMAIN running :
          running' = SubSeq(running, 1, i - 1) \o SubSeq(running, i + 1, Len(running))
    /\ UNCHANGED <<hyprMonitors, engineVars, lstate, mode, hasDetached, linesRead,
                   calls, spawns, lastEvent, closed>>

ReadLine(lines) == ReadLineWith(lines, WriteOutcomes, MaxLines)

-----------------------------------------------------------------------------
(* main: -s, -m, -m -s                                                     *)

Requests == {-10, -3, 0, 1, 3, 7, 11}

\* what `hyprctl activeworkspace -j | jq -r '.id'` answers; no answer counts as 0
ActiveChoices(w) == {0, 5, w, w + 10}

\* `hyprctl monitors -j | jq 'length'`; no answer counts as 1
MonitorCounts == {Len(hyprMonitors), 1}

\* the monitorID of the active workspace; no answer counts as 0
CurrentMonitors == {hyprMonitors[i].id : i \in DOMAIN hyprMonitors} \cup {0}

\* -s <workspace>; hyprctl is asked only what the run of the code asks
SwitchCmd ==
    /\ \E w \in Requests :
          LET maps == parse_workspace_file(wsConf)
              cycles(active) == w > 0 /\ active \in Range(Targets(w, maps))
          IN  \E active \in IF w > 0 THEN ActiveChoices(w) ELSE {0} :
              \E mc \in IF w > 0 THEN MonitorCounts ELSE {0} :
              \E cur \in IF cycles(active) /\ mc # 0 THEN CurrentMonitors ELSE {0} :
                 LET r == switch_workspace(w, maps, active, mc, cur)
                 IN  /\ issued' = r.cmds
                     /\ lastOp' = [NoOp EXCEPT !.op = "switch", !.w = w,
                                               !.active = active, !.mcount = mc,
                                               !.curmon = cur, !.panicked = r.panicked]
    /\ UNCHANGED <<hyprMonitors, cacheFile, wsConf, listenerVars>>

\* the window counts are asked only when there are targets
ProfilesFor(w) ==
    IF w > 0 /\ Targets(w, parse_workspace_file(wsConf)) # << >> THEN Profiles ELSE {0}

\* -m <workspace>
MoveCmd ==
    /\ \E w \in Requests :
       \E profile \in ProfilesFor(w) :
          /\ issued' = move_workspace(w, parse_workspace_file(wsConf), profile)
          /\ lastOp' = [NoOp EXCEPT !.op = "move", !.w = w, !.profile = profile]
    /\ UNCHANGED <<hyprMonitors, cacheFile, wsConf, listenerVars>>

\* -m -s <workspace>
MoveSilentCmd ==
    /\ \E w \in Requests :
       \E profile \in ProfilesFor(w) :
          /\ issued' = move_silent_workspace(w, parse_workspace_file(wsConf), profile)
          /\ lastOp' = [NoOp EXCEPT !.op = "move", !.silent = TRUE, !.w = w,
                                    !.profile = profile]
    /\ UNCHANGED <<hyprMonitors, cacheFile, wsConf, listenerVars>>

\* --debug-monitors
DebugMonitors ==
    /\ \E q0 \in IF MonitorConfig_load(cacheFile).ok THEN {"ok"} ELSE QueryStatus :
       \E q \in QueryStatus, save0 \in BOOLEAN, save1 \in BOOLEAN :
          LET r == debug_monitor_config(cacheFile, hyprMonitors, q0, save0, q, save1)
          IN  /\ cacheFile' = r.cache
              /\ lastOp' = r.op
              /\ issued' = << >>
    /\ UNCHANGED <<hyprMonitors, wsConf, listenerVars>>

-----------------------------------------------------------------------------
(* Specifications                                                          *)

\* the table is written, or cannot be created
ReconcileWrites == {wr \in WriteOutcomes : wr.kind # "write_fails" /\ wr.reloadOk}

\* the engine: every list of monitors handed to the placement
InitEngine == InitWith(Snapshots, {NoFile})
NextEngine ==
    \/ StartCallback
    \/ SocketError
SpecEngine == InitEngine /\ [][NextEngine]_vars

\* the listener: both modes, every sample line
ListenerSnapshots == {Ordered(n) : n \in 1..2}
InitListener == InitWith(ListenerSnapshots, {NoFile})
NextListener ==
    \/ StartCallbackWith(ReconcileWrites)
    \/ StartScript
    \/ ReadLineWith(SampleLines, ReconcileWrites, MaxLines)
    \/ SocketError
SpecListener == InitListener /\ [][NextListener]_vars

\* the requests of the command line against the tables the engine wrote
InitCli == InitWith(CliSnapshots, {NoFile})
NextCli ==
    \/ StartCallback
    \/ SwitchCmd
    \/ MoveCmd
    \/ MoveSilentCmd
SpecCli == InitCli /\ [][NextCli]_vars

\* switches while monitors are plugged and unplugged
NextSwitch ==
    \/ Hotplug(CliSnapshots)
    \/ StartCallback
    \/ SwitchCmd
SpecSwitch == InitCli /\ [][NextSwitch]_vars

\* a ws.conf edited by hand: a comment, pairs in another order than the
\* engine writes, a number that does not parse
Shuffled ==
    [exists |-> TRUE,
     lines |-> << [FormatLine(0, "") EXCEPT !.head = "# workspace = "],
                  FormatLine(11, MonitorName(1)),
                  FormatLine(1, MonitorName(0)),
                  FormatLine(21, MonitorName(2)),
                  [FormatLine(0, MonitorName(0)) EXCEPT !.numOk = FALSE],
                  FormatLine(13, MonitorName(1)),
                  FormatLine(3, MonitorName(0)) >>]

\* a ws.conf edited by hand: a pair written twice
Doubled ==
    [exists |-> TRUE,
     lines |-> << FormatLine(1, MonitorName(0)),
                  FormatLine(11, MonitorName(1)),
                  FormatLine(1, MonitorName(0)) >>]

\* the requests of the command line against any table file
InitCliFiles == InitWith({Ordered(2)}, {NoFile, Shuffled, Doubled})
NextCliFiles ==
    \/ StartCallback
    \/ SwitchCmd
    \/ MoveCmd
    \/ MoveSilentCmd
SpecCliFiles == InitCliFiles /\ [][NextCliFiles]_vars

\* the events of a hotplug, as Hyprland writes them to the socket
HotplugLines ==
    { <<"monitoradded", ">>", "DP-1", "\n">>,
      <<"monitorremoved", ">>", "DP-1", "\n">> }

\* two or eleven monitors, listed by ascending id or not
ReconcileSnapshots == {Ordered(2), Reversed(2), Reversed(MAX_MONITORS + 1)}

\* reconciliations in callback mode while monitors are plugged and unplugged
InitReconcile == InitWith(ReconcileSnapshots, {NoFile})
NextReconcile ==
    \/ Hotplug(ReconcileSnapshots)
    \/ StartCallbackWith(ReconcileWrites)
    \/ ReadLineWith(HotplugLines, ReconcileWrites, MaxEvents)
SpecReconcile == InitReconcile /\ [][NextReconcile]_vars

\* the listener to the end of the stream, with the scripts it spawned; the
\* loop of listen takes its next pass as soon as the read returns, and at the
\* end of the stream the read returns at once
InitStream == InitWith({Ordered(1)}, {NoFile})
NextStream ==
    \/ StartCallbackWith(ReconcileWrites)
    \/ StartScript
    \/ ReadLineWith(HotplugLines, ReconcileWrites, MaxEvents)
    \/ CloseStream
    \/ ReadEof
    \/ ChildExits
SpecStream == InitStream /\ [][NextStream]_vars /\ WF_vars(ReadEof)

\* a cache file that the program did not write: the entries of MAX_MONITORS + 1
\* monitors
Oversized ==
    [state |-> "ok",
     doc |-> ToJson([key \in {ToString(id) : id \in 0..MAX_MONITORS} |->
                        HyprlandMonitor(CHOOSE id \in 0..MAX_MONITORS :
                                            ToString(id) = key)])]

\* every operation of the command line and the listener in both of its modes
InitOps == InitWith({Ordered(2)}, {NoFile})
NextOps ==
    \/ StartCallbackWith(ReconcileWrites)
    \/ StartScript
    \/ ReadLineWith(HotplugLines, ReconcileWrites, MaxEvents)
    \/ SwitchCmd
    \/ MoveCmd
    \/ MoveSilentCmd
    \/ DebugMonitors
SpecOps == InitOps /\ [][NextOps]_vars

\* the registry against no cache file or a cache file written by something
\* else, while monitors come and go
CacheSnapshots == {Ordered(2), Gapped, Ordered(MAX_MONITORS + 2)}
InitCache ==
    /\ hyprMonitors \in CacheSnapshots
    /\ cacheFile \in {NoCache, Oversized}
    /\ wsConf = NoFile
    /\ lastOp = NoOp
    /\ issued = << >>
    /\ lstate = "NotStarted"
    /\ mode = "none"
    /\ hasDetached = FALSE
    /\ linesRead = << >>
    /\ calls = << >>
    /\ spawns = << >>
    /\ lastEvent = NoEvent
    /\ closed = FALSE
    /\ running = << >>
NextCache ==
    \/ Hotplug(CacheSnapshots)
    \/ StartCallbackWith(ReconcileWrites)
    \/ DebugMonitors
SpecCache == InitCache /\ [][NextCache]_vars

-----------------------------------------------------------------------------
(* Properties                                                              *)

\* the table as it is read back from the file
Table == parse_workspace_file(wsConf)

\* the placement group of a requested workspace: the workspace numbers of the
\* table congruent to it modulo 10
Group(w) == {Table[i].workspace : i \in {k \in DOMAIN Table : Table[k].workspace % 10 = w % 10}}

AssignReturnedPath == lastOp.op = "assign" /\ lastOp.ret = "Some"

\* C1: when assign_workspaces_to_monitors has written the table for a list of
\* m monitors, the file holds exactly min(m, 10) * 10 lines, all of them
\* pairs; the workspace numbers are 1..N in order; the k-th monitor
\* (k <= 10) holds exactly 10(k-1)+1 .. 10k; a monitor after the 10th holds
\* nothing; and N <= 100.
C1_PlacementTable ==
    AssignReturnedPath =>
        LET handed == lastOp.handed
            m == Len(handed)
            N == Min(m, 10) * 10
        IN  /\ wsConf.exists
            /\ Len(wsConf.lines) = N
            /\ Len(Table) = N
            /\ \A i \in 1..N : Table[i].workspace = i
            /\ \A k \in 1..Min(m, 10) :
                  {Table[i].workspace : i \in {j \in 1..N : Table[j].monitor = handed[k]}}
                      = (10 * (k - 1) + 1)..(10 * k)
            /\ \A k \in 11..m : \A i \in 1..N : Table[i].monitor # handed[k]
            /\ N <= 100

\* an 11-monitor list was handed over and the table holds 100 pairs
C1_Witness ==
    AssignReturnedPath /\ Len(lastOp.handed) = 11 /\ Len(Table) = 100

RECURSIVE ExpectedCalls(_)
\* the callback invocations the lines call for, in the order of the lines
ExpectedCalls(lines) ==
    IF lines = << >> THEN << >>
    ELSE LET fields == data_parts(Head(lines))
             here == IF Len(fields) >= 2 /\ fields[1] = <<"monitoradded">>
                     THEN <<[id |-> fields[2], is_added |-> TRUE]>>
                     ELSE IF Len(fields) >= 2 /\ fields[1] = <<"monitorremoved">>
                     THEN <<[id |-> fields[2], is_added |-> FALSE]>>
                     ELSE << >>
         IN  here \o ExpectedCalls(Tail(lines))

\* C2: in callback mode the callback invocations are exactly one per line
\* read whose first field is monitoradded or monitorremoved and that has two
\* fields or more, with the second field and is_added = (monitoradded), in the
\* order of the lines; and no script is spawned.
C2_CallbackPerEvent ==
    mode = "callback" => (calls = ExpectedCalls(linesRead) /\ spawns = << >>)

\* an add and a remove were delivered, in this order
C2_Witness ==
    /\ mode = "callback"
    /\ Len(calls) >= 2
    /\ calls[1] = [id |-> <<"DP-2">>, is_added |-> TRUE]
    /\ calls[2] = [id |-> <<"DP-1">>, is_added |-> FALSE]

\* the line is no monitoradded / monitorremoved event, or has one field only
Unrecognized(line) ==
    LET fields == data_parts(line)
    IN  \/ Len(fields) < 2
        \/ fields[1] \notin {<<"monitoradded">>, <<"monitorremoved">>}

\* C3: reading a line that is no monitoradded / monitorremoved event, or that
\* has fewer than two fields, calls no callback, spawns no script, runs no
\* assignment and leaves the listener Connected.
C3_NoiseIgnored ==
    [][(Len(linesRead') = Len(linesRead) + 1 /\ Unrecognized(linesRead'[Len(linesRead')]))
          => /\ calls' = calls
             /\ spawns' = spawns
             /\ lstate' = "Connected"
             /\ UNCHANGED engineVars]_vars

\* a noise line was read after a recognized event, and the listener goes on
C3_Witness ==
    /\ Len(linesRead) >= 2
    /\ ~Unrecognized(linesRead[1])
    /\ Unrecognized(linesRead[Len(linesRead)])
    /\ lstate = "Connected"
    /\ lastEvent.outcome = "ignored"

\* C4: a listener that has read lines is Terminated only by a socket error.
C4_OnlySocketErrorTerminates ==
    (lstate = "Terminated" /\ linesRead # << >>) => lastEvent.outcome = "socket_error"

Requested == lastOp.op \in {"switch", "move"}

\* C5: a request for a workspace <= 0 issues no command.
C5_NoDispatchNonPositive ==
    (Requested /\ lastOp.w <= 0) => issued = << >>

\* C6: a request whose placement group is empty issues no command.
C6_NoDispatchEmptyGroup ==
    (Requested /\ Group(lastOp.w) = {}) => issued = << >>

\* a request for workspace 7 against a table cut short after workspace 3
C6_Witness ==
    Requested /\ lastOp.w = 7 /\ Len(Table) = 3 /\ Group(lastOp.w) = {}


\* the workspace numbers of the lines of the table that are in the group,
\* line by line
GroupLines(w) == SelectSeqBy([i \in DOMAIN Table |-> Table[i].workspace], Group(w))

\* the lines of the table ascend, as in every table the engine writes
TableAscends ==
    \A i \in DOMAIN Table : \A j \in DOMAIN Table :
        i < j => Table[i].workspace < Table[j].workspace

\* the commands are one workspace switch per member of the group, ascending
SwitchesAscending(cmds, w) ==
    /\ Len(cmds) = Cardinality(Group(w))
    /\ \A i \in DOMAIN cmds : cmds[i].cmd = "workspace" /\ cmds[i].arg \in Group(w)
    /\ \A i \in DOMAIN cmds : \A j \in DOMAIN cmds : i < j => cmds[i].arg < cmds[j].arg

SwitchedAway ==
    lastOp.op = "switch" /\ lastOp.w > 0 /\ lastOp.active \notin Group(lastOp.w)

\* C7 as claimed: whatever the order of the lines of the table file, a switch
\* away from the group issues one workspace switch per member of the group, in
\* ascending order of the numbers, and nothing else.
C7_AscendingWhateverTheFile ==
    SwitchedAway => SwitchesAscending(issued, lastOp.w)

\* C7 as amended: a switch away from the group issues one workspace switch per
\* line of the table whose number is in the group, in the order of the lines,
\* and nothing else; when the lines of the table ascend this is one switch
\* per member of the group in ascending order of the numbers.
C7_SwitchesInFileOrder ==
    SwitchedAway =>
        /\ issued = [i \in DOMAIN GroupLines(lastOp.w) |->
                        Cmd("workspace", GroupLines(lastOp.w)[i])]
        /\ TableAscends => SwitchesAscending(issued, lastOp.w)

\* a switch against the table edited by hand went to 11 before 1
C7_Witness ==
    /\ SwitchedAway
    /\ Len(issued) >= 2
    /\ issued[1].arg > issued[2].arg

\* a switch against a table of the engine went to 1, 11 and 21
C7_WitnessAscending ==
    /\ SwitchedAway
    /\ TableAscends
    /\ Len(issued) = 3

\* C8: a switch to the group of the active workspace issues exactly one
\* focusmonitor command, for monitor (current monitor + 1) mod monitor count,
\* and no workspace switch.
C8_CycleFocusesNextMonitor ==
    (lastOp.op = "switch" /\ lastOp.w > 0 /\ lastOp.active \in Group(lastOp.w)) =>
        /\ Len(issued) = 1
        /\ issued[1].cmd = "focusmonitor"
        /\ lastOp.mcount # 0
        /\ issued[1].arg = (lastOp.curmon + 1) % lastOp.mcount

MovedTo == lastOp.op = "move" /\ lastOp.w > 0 /\ Group(lastOp.w) # {}

SilentMoves == SelectSeqBy(issued, {Cmd("movetoworkspacesilent", g) : g \in Group(lastOp.w)})

\* C9: a move (silent or not) to a workspace > 0 with a non-empty group issues
\* exactly one movetoworkspacesilent command; its target is a member of the
\* group with the least window count, the smallest such member.
C9_MoveToLeastPopulated ==
    MovedTo =>
        /\ Cardinality({i \in DOMAIN issued : issued[i].cmd = "movetoworkspacesilent"}) = 1
        /\ Len(SilentMoves) = 1
        /\ LET t == SilentMoves[1].arg
               n(ws) == WindowCount(lastOp.profile, ws)
           IN  \A g \in Group(lastOp.w) :
                  /\ n(t) <= n(g)
                  /\ n(g) = n(t) => t <= g

\* three members, the least count shared by the last two: the move goes to 11
C9_Witness ==
    /\ MovedTo
    /\ Cardinality(Group(lastOp.w)) = 3
    /\ lastOp.profile = 4
    /\ issued[1] = Cmd("movetoworkspacesilent", 11)

\* C10: a move to a workspace > 0 with a non-empty group issues the silent
\* move first; when not silent it then issues one workspace switch per member
\* of the group and nothing else; when silent it issues nothing else.
C10_MoveThenReveal ==
    MovedTo =>
        /\ Len(issued) >= 1
        /\ issued[1].cmd = "movetoworkspacesilent"
        /\ lastOp.silent => Len(issued) = 1
        /\ ~lastOp.silent =>
              /\ Len(issued) = 1 + Cardinality(Group(lastOp.w))
              /\ \A i \in 2..Len(issued) : issued[i].cmd = "workspace"
              /\ {issued[i].arg : i \in 2..Len(issued)} = Group(lastOp.w)

\* the scenario of the specification: the move goes to 23, then 3, 13, 23 show
C10_Witness ==
    /\ MovedTo
    /\ ~lastOp.silent
    /\ issued = <<Cmd("movetoworkspacesilent", 23), Cmd("workspace", 3),
                  Cmd("workspace", 13), Cmd("workspace", 23)>>

\* a silent move issued the move alone
C10_WitnessSilent ==
    MovedTo /\ lastOp.silent /\ Cardinality(Group(lastOp.w)) >= 2 /\ Len(issued) = 1

\* the extent of the divergence of C8: with a monitor count other than 0 the
\* switch issues the one focusmonitor command
C8_CycleUnlessNoMonitor ==
    (lastOp.op = "switch" /\ lastOp.w > 0 /\ lastOp.active \in Group(lastOp.w)
        /\ lastOp.mcount # 0) =>
        /\ Len(issued) = 1
        /\ issued[1].cmd = "focusmonitor"
        /\ issued[1].arg = (lastOp.curmon + 1) % lastOp.mcount

-----------------------------------------------------------------------------
(* The tables of successive reconciliations                                *)

\* the numeric id hyprctl reports for the monitor of this name
IdOf(name) ==
    hyprMonitors[CHOOSE i \in DOMAIN hyprMonitors : hyprMonitors[i].name = name].id

\* C11: in every table assign_workspaces has written, on the refresh path and
\* on the fallback path alike, the monitors are laid out by ascending numeric
\* id: when the id of monitor A is less than the id of monitor B, every
\* workspace of A is numbered below every workspace of B.
C11_AscendingById ==
    AssignReturnedPath =>
        \A i \in DOMAIN Table : \A j \in DOMAIN Table :
            IdOf(Table[i].monitor) < IdOf(Table[j].monitor)
                => Table[i].workspace < Table[j].workspace

\* a reconciliation of the listener: the callback ran in this step
Reconciled == calls' # calls

\* C12: when hyprctl is unavailable during a reconciliation (the refresh fails
\* and the fallback query for the names returns nothing), the reconciliation
\* is skipped: the table file is as the previous reconciliation left it.
C12_UnavailableSkipsCycle ==
    [][(Reconciled /\ lastOp'.query = "unavailable") => wsConf' = wsConf]_vars

\* C13: when the refresh fails (hyprctl printed nothing, or JSON that does not
\* parse), the registry holds exactly the entries it held before the call.
C13_FailedRefreshKeepsRegistry ==
    (lastOp.op = "assign" /\ lastOp.path = "fallback") => lastOp.after = lastOp.before

\* a refresh failed on a registry of two monitors loaded from the cache
C13_Witness ==
    /\ lastOp.op = "assign"
    /\ lastOp.path = "fallback"
    /\ Cardinality(DOMAIN lastOp.before) = 2
    /\ Cardinality(DOMAIN lastOp.after) = 2

\* the names and ids of the monitors hyprctl listed
Identities(listed) == {[name |-> listed[i].name, id |-> listed[i].id] : i \in DOMAIN listed}

\* two reconciliations in a row, both with an answer of hyprctl, both with the
\* table written
TwiceInARow ==
    /\ Reconciled
    /\ lastOp.op = "assign" /\ lastOp.ret = "Some" /\ lastOp.query # "unavailable"
    /\ lastOp'.ret = "Some" /\ lastOp'.query # "unavailable"

\* C14: two runs of assign_workspaces in a row for which hyprctl reported the
\* same set of monitors (names and ids) leave the same table file, line for
\* line.
C14_SameSetSameTable ==
    [][(TwiceInARow /\ Identities(lastOp'.seen) = Identities(lastOp.seen))
          => wsConf' = wsConf]_vars

\* the extent of the divergence of C14: with the same list in the same order
\* and the same kind of answer both times, or with both refreshes successful
\* and no more than MAX_MONITORS monitors, the table is the same
C14_SameListSameTable ==
    [][(/\ TwiceInARow
        /\ Identities(lastOp'.seen) = Identities(lastOp.seen)
        /\ \/ lastOp'.seen = lastOp.seen /\ lastOp'.query = lastOp.query
           \/ /\ lastOp'.query = "ok" /\ lastOp.query = "ok"
              /\ Len(lastOp.seen) <= MAX_MONITORS)
          => wsConf' = wsConf]_vars

NamesById(listed) ==
    LET ids == SortIds({listed[i].id : i \in DOMAIN listed})
    IN  [k \in DOMAIN ids |->
            listed[CHOOSE i \in DOMAIN listed : listed[i].id = ids[k]].name]

\* the table holds the block of 10 workspaces of each of the names, in their
\* order, and nothing else
TableOf(names) ==
    /\ wsConf.exists
    /\ Len(wsConf.lines) = 10 * Len(names)
    /\ Len(Table) = 10 * Len(names)
    /\ \A k \in DOMAIN names : \A j \in 1..10 :
          Table[10 * (k - 1) + j] =
              [workspace |-> 10 * (k - 1) + j, monitor |-> names[k]]

\* the listener has handled an event, hyprctl answered the refresh of the
\* last reconciliation, and the table file was written
AfterEvents ==
    /\ mode = "callback"
    /\ calls # << >>
    /\ lastOp.op = "assign"
    /\ lastOp.query = "ok"
    /\ lastOp.ret = "Some"

\* C17 as claimed: after the last event the table is the placement of the
\* connected monitors taken by ascending id, the first 10 of them when there
\* are more.
C17_TableOfFirstTenById ==
    AfterEvents =>
        LET names == NamesById(lastOp.seen)
        IN  TableOf(SubSeq(names, 1, Min(Len(names), 10)))

\* C17 as amended: after the last event, when hyprctl answered and the table
\* file could be written, the table is the placement of the first 10 monitors
\* hyprctl listed at that moment, laid out by ascending id; when no more than
\* 10 are connected every connected monitor holds its block; and no monitor
\* that is not connected appears in the table.
C17_TableTracksMonitors ==
    AfterEvents =>
        LET listed == lastOp.seen
            used == SubSeq(listed, 1, Min(Len(listed), MAX_MONITORS))
        IN  /\ TableOf(NamesById(used))
            /\ Len(listed) <= MAX_MONITORS => TableOf(NamesById(listed))
            /\ \A i \in DOMAIN Table :
                  Table[i].monitor \in {listed[j].name : j \in DOMAIN listed}

\* after two events two monitors are connected where eleven were
C17_Witness ==
    /\ AfterEvents
    /\ Len(calls) = 2
    /\ Len(lastOp.seen) = 2
    /\ Cardinality(DOMAIN lastOp.before) = MAX_MONITORS
    /\ Len(Table) = 20

\* C20: within one call of assign_workspaces, `hyprctl reload` is issued only
\* when every line of the table has been written, and is the last command;
\* when the file cannot be created or a line cannot be written no command is
\* issued and the call returns None; otherwise it returns Some(path), whether
\* or not the reload succeeded and whether or not the registry was saved.
C20_ReloadAfterLastLine ==
    lastOp.op = "assign" =>
        /\ Cmd("reload", 0) \in Range(issued) =>
              /\ lastOp.write = "ok"
              /\ wsConf.exists
              /\ Len(wsConf.lines) = 10 * Min(Len(lastOp.handed), 10)
              /\ issued[Len(issued)] = Cmd("reload", 0)
        /\ lastOp.write \in {"create_fails", "write_fails"} =>
              /\ issued = << >>
              /\ lastOp.reload = "none"
              /\ lastOp.ret = "None"
        /\ lastOp.write = "ok" =>
              /\ lastOp.ret = "Some"
              /\ lastOp.reload \in {"ok", "failed"}

\* the table was written, the reload failed and the registry was not saved:
\* the call returned the path
C20_Witness ==
    /\ lastOp.op = "assign"
    /\ lastOp.write = "ok"
    /\ lastOp.reload = "failed"
    /\ lastOp.path = "registry"
    /\ ~lastOp.saved
    /\ lastOp.ret = "Some"
    /\ Len(wsConf.lines) = 30

-----------------------------------------------------------------------------
(* The listener: scripts, the end of the stream                            *)

\* the line read in this step is an event for which a script is configured
ScriptEvent ==
    /\ mode = "script"
    /\ Len(linesRead') = Len(linesRead) + 1
    /\ LET fields == data_parts(linesRead'[Len(linesRead')])
       IN  /\ Len(fields) >= 2
           /\ \/ fields[1] = <<"monitoradded">>
              \/ fields[1] = <<"monitorremoved">> /\ hasDetached

\* the owner-execute bit, 0o100, is set in the mode
OwnerMayExecute(bits) == (bits \div 64) % 2 = 1

\* C16: in script mode a script is spawned only for a monitoradded event (the
\* attached script) or a monitorremoved event (the detached script), only if
\* the path exists and its owner-execute bit is set, and with the monitor
\* identity as its only argument; when the path is missing or the bit is not
\* set nothing is spawned and the listener stays Connected.
C16_SpawnOnlyExecutable ==
    [][LET fields == data_parts(linesRead'[Len(linesRead')])
           file == lastEvent'.status
           script == IF fields[1] = <<"monitoradded">> THEN "script_attached"
                     ELSE "script_detached"
       IN  /\ (mode = "script" /\ spawns' # spawns) =>
                 /\ ScriptEvent
                 /\ file.exists
                 /\ OwnerMayExecute(file.mode)
                 /\ spawns' = Append(spawns, [script |-> script, args |-> <<fields[2]>>])
           /\ (ScriptEvent /\ (~file.exists \/ ~OwnerMayExecute(file.mode))) =>
                 /\ spawns' = spawns
                 /\ lstate' = "Connected"]_vars

\* the detached script was spawned for DP-1, and the next event found a
\* script that its owner may not execute: nothing more was spawned
C16_Witness ==
    /\ mode = "script"
    /\ spawns = <<[script |-> "script_detached", args |-> << <<"DP-1">> >>]>>
    /\ Len(linesRead) = 2
    /\ lastEvent.outcome = "not_executable"
    /\ lastEvent.status.exists
    /\ lstate = "Connected"

\* C18: once Hyprland has closed the socket, the listener eventually is
\* Terminated.
C18_ClosedStreamTerminates == [](closed => <>(lstate = "Terminated"))

\* the extent of the divergence of C18: a Connected listener whose stream is
\* closed stays Connected whatever step is taken
C18_ClosedStreamKeepsReading ==
    [][(closed /\ lstate = "Connected") => (closed' /\ lstate' = "Connected")]_vars

\* C19: at no point are two reconciliation actions in progress: a script that
\* listen spawned has exited before the next one is spawned.
C19_OneAtATime == Len(running) <= 1

-----------------------------------------------------------------------------
(* The files, the size of the registry, the cycle of the monitors          *)

\* C21: assign_workspaces is the only writer of the table file and of the
\* cache file: a step that changes either file is a run of assign_workspaces.
C21_AssignIsSoleWriter ==
    [][(wsConf' # wsConf \/ cacheFile' # cacheFile) => lastOp'.op = "assign"]_vars

\* the extent of the divergence of C21: the table file is written by
\* assign_workspaces only, and the cache file by assign_workspaces and
\* --debug-monitors only
C21_WritersOfTheFiles ==
    [][/\ wsConf' # wsConf => lastOp'.op = "assign"
       /\ cacheFile' # cacheFile => lastOp'.op \in {"assign", "debug"}]_vars

C22_AtMostMaxMonitorsRefreshed ==
    lastOp.op \in {"assign", "debug"} =>
        /\ lastOp.query = "ok" => Cardinality(DOMAIN lastOp.after) <= MAX_MONITORS
        /\ lastOp.saved =>
              Cardinality(DOMAIN MonitorConfig_load(cacheFile).monitors) <= MAX_MONITORS

\* the ids of the monitors that are connected
ConnectedIds == {hyprMonitors[i].id : i \in DOMAIN hyprMonitors}

\* C23: a switch that takes the cycle branch completes and issues one
\* focusmonitor command for the id of a connected monitor, whatever hyprctl
\* answers for the monitor count and the current monitor.
C23_CycleTargetsConnected ==
    [][(/\ hyprMonitors' = hyprMonitors
        /\ lastOp'.op = "switch"
        /\ lastOp'.w > 0
        /\ lastOp'.active \in Group(lastOp'.w))
          => /\ ~lastOp'.panicked
             /\ Len(issued') = 1
             /\ issued'[1].cmd = "focusmonitor"
             /\ issued'[1].arg \in ConnectedIds]_vars

=============================================================================
